---- MODULE Spec2Model ----
(***************************************************************************)
(* A model of ubrowse (src/ubrowse.c): the codepoint index (lookupchar,    *)
(* offsetchar, findcharbyname), the entry and table layout (drawentry,     *)
(* drawtable), the block list (emptyblocksinit, drawblocklist,             *)
(* blockselectui), the event loops (mainui, searchui, jumpui, doinputui,   *)
(* the help and version displays) and the program's start and end (main,   *)
(* ioinit, die, shutdown).  The character list and the block list are      *)
(* external data (data.h declares them, charlist.c is generated at build   *)
(* time), so every specification draws them from bounded families of       *)
(* ascending lists.                                                        *)
(*                                                                         *)
(* C arrays are 0-based and TLA+ sequences 1-based: index i of the C       *)
(* array charlist is charlist[i + 1] here (operator CL).                   *)
(***************************************************************************)
EXTENDS Integers, Sequences, FiniteSets, TLC

(***************************************************************************)
(* Bounds of the model.                                                    *)
(***************************************************************************)
\* longest character list of the lookup specification
MaxLen == 4
\* the lookup specification's codepoint values are 0..MaxUChar, plus the
\* highest codepoint
MaxUChar == 5
\* offsets tried by the round trip are -MaxDelta..MaxDelta, plus the
\* +-0x1000 of the main table
MaxDelta == 3

(***************************************************************************)
(* Program constants.                                                      *)
(***************************************************************************)
lastucharval == 1114111
mincolumnwidth == 8
\* the offset of the commands '}' and '{' (0x1000)
JumpOffset == 4096

(***************************************************************************)
(* The program's state.                                                    *)
(*   charlist       the character list of data.h (uchar, name, combining)  *)
(*   xtermsize, ytermsize, lastrow, columncount   the globals of ubrowse.c *)
(*   index, tablesize   mainui's parameter and local                       *)
(*   pc             where the program is                                   *)
(*   beep           whether the step taken last sounded beep()             *)
(*   input, inputlen, inputmax   doinputui's buffer (the inputlen          *)
(*                  characters typed) and locals                           *)
(*   lastsubstring  findcharbyname's static buffer                         *)
(*   lastfound      history: the string of the search that succeeded last  *)
(*   showcombining  the global of line 98, cleared by option -A            *)
(*   blocklist      the block list of data.h (from, to)                    *)
(*   emptyblocks    the global of line 77: <<>> is the pointer not yet set,*)
(*                  otherwise one flag per block                           *)
(*   selected       blockselectui's local                                  *)
(*   xscreen, yscreen   the size the terminal really has (what getmaxyx    *)
(*                  would report)                                          *)
(*   curses         "none" before initscr, "managed" once it has put the   *)
(*                  terminal into curses mode, "failed" when it returned   *)
(*                  NULL, "ended" after endwin                             *)
(*   errtext        whether text has been written to stderr                *)
(*   status         the process's exit status, -1 while it runs            *)
(*   key            the key the step taken last read with getch: "^C"      *)
(*                  ('\003'), "^G" (a cancel: '\007', or 'q' in the block  *)
(*                  list), "other", or "none"                              *)
(* and, for the specifications that apply one function to drawn inputs,    *)
(* the call made last: fn (its name), a1, a2 (arguments), r1, r2           *)
(* (results), sarg (a string argument), visited (the entries a search      *)
(* examined, in order), cells (the cells drawentry wrote, in order).       *)
(***************************************************************************)
VARIABLES charlist, xtermsize, ytermsize, lastrow, columncount, index,
          tablesize, pc, beep, input, inputlen, inputmax, lastsubstring,
          lastfound, showcombining, fn, a1, a2, r1, r2, sarg, visited, cells,
          blocklist, emptyblocks, selected, xscreen, yscreen, curses,
          errtext, status, key

vars == <<charlist, xtermsize, ytermsize, lastrow, columncount, index,
          tablesize, pc, beep, input, inputlen, inputmax, lastsubstring,
          lastfound, showcombining, fn, a1, a2, r1, r2, sarg, visited,
          cells, blocklist, emptyblocks, selected, xscreen, yscreen, curses,
          errtext, status, key>>

\* what mainui and the functions it calls never write
fixed == <<charlist, showcombining, blocklist>>

\* the variables of blockselectui
blockvars == <<emptyblocks, selected>>

\* the terminal itself
screenvars == <<xscreen, yscreen>>

\* the process: curses mode, stderr, exit status
procvars == <<curses, errtext, status>>

\* the terminal's size as measurescreen leaves it
termvars == <<xtermsize, ytermsize, lastrow>>

\* the variables of doinputui
inputvars == <<input, inputlen, inputmax>>

\* the variables of the event loops
uivars == <<termvars, columncount, index, tablesize, pc, beep, inputvars,
            showcombining, blocklist, blockvars, screenvars, procvars, key>>

\* the call made last, in the specifications that apply one function
callvars == <<fn, a1, a2, r1, r2, sarg, visited, cells>>

charlistsize == Len(charlist)

CL(i) == charlist[i + 1]

ValidIndex(i) == i \in 0..(charlistsize - 1)

Abs(x) == IF x < 0 THEN -x ELSE x

(***************************************************************************)
(* lookupchar, src/ubrowse.c:104-121.                                      *)
(***************************************************************************)
\* a mutant of LookupFinal: the nearer-entry test is dropped
LookupFinalTop(uchar, top, bottom) == top

\* a mutant of LookupFinal: <= for <, so that a tie goes to top
LookupFinalLE(uchar, top, bottom) ==
    IF uchar - CL(top).uchar <= CL(bottom).uchar - uchar THEN top ELSE bottom

\* lines 119-120: the nearer of the two entries left by the search
LookupFinal(uchar, top, bottom) ==
    IF uchar - CL(top).uchar < CL(bottom).uchar - uchar THEN top ELSE bottom

RECURSIVE LookupLoop(_, _, _)
\* lines 110-120: the binary search
LookupLoop(uchar, top, bottom) ==
    IF bottom - top > 1
    THEN LET n == (top + bottom) \div 2
         IN  IF CL(n).uchar < uchar THEN LookupLoop(uchar, n, bottom)
             ELSE IF CL(n).uchar > uchar THEN LookupLoop(uchar, top, n)
             ELSE n
    ELSE LookupFinal(uchar, top, bottom)

lookupchar(uchar) == LookupLoop(uchar, 0, charlistsize - 1)

(***************************************************************************)
(* offsetchar, src/ubrowse.c:126-129.                                      *)
(***************************************************************************)
offsetchar(pos, charoffset) == lookupchar(CL(pos).uchar + charoffset)

(***************************************************************************)
(* The character lists of the lookup specification: every strictly         *)
(* ascending list of 1..MaxLen codepoints (data.h: "the complete array of  *)
(* Unicode characters", sorted by codepoint).  Names play no part in       *)
(* lookupchar.                                                             *)
(***************************************************************************)
UCharVals == (0..MaxUChar) \cup {lastucharval}

Ascending(s) == \A i \in 1..(Len(s) - 1) : s[i] < s[i + 1]

MkEntry(v, nm) == [uchar |-> v, name |-> nm, combining |-> FALSE]

LookupLists ==
    { [i \in 1..Len(s) |-> MkEntry(s[i], <<"a">>)] :
        s \in { t \in UNION { [1..n -> UCharVals] : n \in 1..MaxLen } :
                  Ascending(t) } }

\* the values handed to lookupchar: every value around the small ones, and
\* the highest codepoint and its neighbour
LookupInputs == (0..(MaxUChar + 2)) \cup {lastucharval - 1, lastucharval}

Deltas == ((0 - MaxDelta)..MaxDelta) \cup {JumpOffset, 0 - JumpOffset}

\* the main table's variables, at rest while one function is applied
UIIdle ==
    /\ xtermsize = 80
    /\ ytermsize = 24
    /\ lastrow = 23
    /\ columncount = 2
    /\ index = 0
    /\ tablesize = 0
    /\ pc = "call"
    /\ beep = FALSE
    /\ input = <<>>
    /\ inputlen = 0
    /\ inputmax = 0
    /\ lastfound = <<>>
    /\ selected = 0
    /\ xscreen = 80
    /\ yscreen = 24
    /\ curses = "none"
    /\ errtext = FALSE
    /\ status = 0 - 1
    /\ key = "none"

\* no block list is in play
NoBlocks ==
    /\ blocklist = <<>>
    /\ emptyblocks = <<>>

NoCall ==
    /\ fn = "none"
    /\ a1 = 0
    /\ a2 = 0
    /\ r1 = 0
    /\ r2 = 0
    /\ sarg = <<>>
    /\ visited = <<>>
    /\ cells = <<>>

InitLookup ==
    /\ charlist \in LookupLists
    /\ showcombining = TRUE
    /\ UIIdle
    /\ NoBlocks
    /\ lastsubstring = <<>>
    /\ NoCall

\* r1 = lookupchar(a1)
CallLookup ==
    \E v \in LookupInputs :
        /\ fn' = "lookupchar"
        /\ a1' = v
        /\ a2' = 0
        /\ r1' = lookupchar(v)
        /\ r2' = 0
        /\ UNCHANGED <<charlist, uivars, lastsubstring, lastfound, sarg, visited,
                       cells>>

\* r1 = offsetchar(a1, a2), r2 = offsetchar(r1, -a2)
CallOffsetRoundTrip ==
    \E i \in 0..(charlistsize - 1), d \in Deltas :
        /\ fn' = "offsetchar"
        /\ a1' = i
        /\ a2' = d
        /\ r1' = offsetchar(i, d)
        /\ r2' = offsetchar(offsetchar(i, d), 0 - d)
        /\ UNCHANGED <<charlist, uivars, lastsubstring, lastfound, sarg, visited,
                       cells>>

NextLookup == CallLookup \/ CallOffsetRoundTrip

SpecLookup == InitLookup /\ [][NextLookup]_vars

(***************************************************************************)
(* C1.  lookupchar is total and nearest-match: for every value handed to   *)
(* it and every non-empty strictly ascending list, the index it returns is *)
(* valid and no entry is nearer to the value than the returned one; a      *)
(* value that is in the list gets its own index.                           *)
(***************************************************************************)
C1_LookupNearest ==
    fn = "lookupchar" =>
        /\ ValidIndex(r1)
        /\ \A k \in 0..(charlistsize - 1) :
              Abs(CL(r1).uchar - a1) <= Abs(CL(k).uchar - a1)
        /\ \A k \in 0..(charlistsize - 1) : CL(k).uchar = a1 => r1 = k

\* a value strictly between two entries, nearer to the upper one, and found
C1_Witness ==
    /\ fn = "lookupchar"
    /\ charlistsize >= 3
    /\ ValidIndex(r1)
    /\ r1 >= 1
    /\ CL(r1 - 1).uchar < a1
    /\ a1 < CL(r1).uchar
    /\ CL(r1).uchar - a1 < a1 - CL(r1 - 1).uchar

\* the value is absent and exactly midway between entries lo and lo + 1
Midway(v, lo) ==
    /\ ValidIndex(lo)
    /\ ValidIndex(lo + 1)
    /\ CL(lo).uchar < v
    /\ v < CL(lo + 1).uchar
    /\ v - CL(lo).uchar = CL(lo + 1).uchar - v

(***************************************************************************)
(* C2 as claimed: a value absent from the list and exactly midway between  *)
(* the two entries around it gets the lower of the two indices.            *)
(***************************************************************************)
C2_TieLower ==
    fn = "lookupchar" =>
        \A lo \in 0..(charlistsize - 1) : Midway(a1, lo) => r1 = lo

(***************************************************************************)
(* C2 as amended: a value absent from the list and exactly midway between  *)
(* the two entries around it gets the higher of the two indices.           *)
(***************************************************************************)
C2_TieHigher ==
    fn = "lookupchar" =>
        \A lo \in 0..(charlistsize - 1) : Midway(a1, lo) => r1 = lo + 1

C2_Witness ==
    /\ fn = "lookupchar"
    /\ \E lo \in 0..(charlistsize - 1) : Midway(a1, lo) /\ r1 = lo + 1

(***************************************************************************)
(* C3 as claimed: offsetchar by +d and then by -d returns to the index it  *)
(* started from, for every valid index and every d.                        *)
(***************************************************************************)
C3_RoundTrip ==
    fn = "offsetchar" => r2 = a1

\* the forward step lands exactly on an entry: uchar(a1) + a2 is in the list
ExactStep ==
    \E k \in 0..(charlistsize - 1) : CL(k).uchar = CL(a1).uchar + a2

(***************************************************************************)
(* C3 as amended: offsetchar by +d and then by -d returns a valid index,   *)
(* and it returns the starting index whenever the forward step needed no   *)
(* snapping, that is whenever entries[i].value + d is itself an entry's    *)
(* value.                                                                  *)
(***************************************************************************)
C3_RoundTripExact ==
    fn = "offsetchar" =>
        /\ ValidIndex(r1)
        /\ ValidIndex(r2)
        /\ ExactStep => r2 = a1

\* a round trip over a real step: d # 0, another entry is hit exactly
C3_Witness ==
    /\ fn = "offsetchar"
    /\ a2 # 0
    /\ ExactStep
    /\ r1 # a1
    /\ r2 = a1

(***************************************************************************)
(* C24.  Forward jump makes progress: '}' (offsetchar(index, +0x1000))     *)
(* from an entry that is not the last one, shown in a table of one entry,  *)
(* gives a strictly greater index, whatever the gaps between the values of *)
(* the list.                                                               *)
(***************************************************************************)
C24_JumpProgress ==
    (/\ fn = "offsetchar"
     /\ a2 = JumpOffset
     /\ a1 < charlistsize - 1)
    => r1 > a1

(***************************************************************************)
(* findcharbyname, src/ubrowse.c:136-173.                                  *)
(*                                                                         *)
(* A string is a sequence of characters.  NULL stands for the null pointer *)
(* and NUL for the byte that ends a C string; no name holds either.        *)
(***************************************************************************)
NULL == <<"NULL">>

NUL == "NUL"

\* sizeof buf, line 139
BufSize == 256

\* the value findcharbyname hands back: a result (an index, or -1) and the
\* static buffer as the call leaves it; Diverges says the for (;;) of lines
\* 153-172 never returns
Diverges == 0 - 2

\* *substring, line 161: the first character, the terminating NUL of ""
FirstChar(s) == IF s = <<>> THEN NUL ELSE s[1]

\* memchr(p, c, size), line 161
memchr(name, c) == \E k \in 1..Len(name) : name[k] = c

\* strstr(buf, substring), line 164
strstr(name, s) ==
    \E k \in 0..(Len(name) - Len(s)) : SubSeq(name, k + 1, k + Len(s)) = s

\* lines 161 and 164: the name is taken to hold the substring
NameMatches(name, s) == memchr(name, FirstChar(s)) /\ strstr(name, s)

\* lines 154-158: the next position, wrapped around the list
NextPos(pos, direction) ==
    IF pos + direction >= charlistsize THEN 0
    ELSE IF pos + direction < 0 THEN charlistsize - 1
    ELSE pos + direction

\* a mutant of FindVisit: the wrap test of line 170 comes before the match
FindVisitWrapFirst(substring, startpos, pos) ==
    IF pos = startpos THEN "wrapped"
    ELSE IF NameMatches(CL(pos).name, substring) THEN "found"
    ELSE "next"

\* lines 159-171: what the loop does with the entry at pos
FindVisit(substring, startpos, pos) ==
    IF NameMatches(CL(pos).name, substring) THEN "found"
    ELSE IF pos = startpos THEN "wrapped"
    ELSE "next"

RECURSIVE FindLoop(_, _, _, _, _)
\* lines 153-172.  The loop's only state is pos: when a position comes
\* round again and the loop has not returned, it never will.
FindLoop(substring, startpos, direction, pos, seen) ==
    LET p == NextPos(pos, direction)
        v == FindVisit(substring, startpos, p)
    IN  IF v = "found" THEN [res |-> p, seen |-> Append(seen, p)]
        ELSE IF v = "wrapped" THEN [res |-> 0 - 1, seen |-> Append(seen, p)]
        ELSE IF \E k \in 1..Len(seen) : seen[k] = p
             THEN [res |-> Diverges, seen |-> Append(seen, p)]
        ELSE FindLoop(substring, startpos, direction, p, Append(seen, p))

\* a mutant of FindStore: the string is remembered whatever the result
FindStoreAlways(res, substring, last) == substring

\* lines 165-166: a search that finds its string remembers it
FindStore(res, substring, last) == IF res >= 0 THEN substring ELSE last

\* [res, last, seen]: the index returned (-1: not found), lastsubstring as
\* the call leaves it, and the positions examined
findcharbyname(substring, startpos, direction, last) ==
    IF substring # NULL /\ Len(substring) >= BufSize - 1
    THEN [res |-> 0 - 1, last |-> last, seen |-> <<>>]
    ELSE IF substring = NULL /\ last = <<>>
    THEN [res |-> 0 - 1, last |-> last, seen |-> <<>>]
    ELSE LET s == IF substring = NULL THEN last ELSE substring
             f == FindLoop(s, startpos, direction, startpos, <<>>)
         IN  [res |-> f.res, last |-> FindStore(f.res, s, last),
              seen |-> f.seen]

(***************************************************************************)
(* The search specification: findcharbyname applied to every list of       *)
(* 1..MaxFindLen names, every start index of the list, both directions.    *)
(* Codepoint values play no part in it.                                    *)
(***************************************************************************)
MaxFindLen == 3

FindNames == { <<"a">>, <<"b">>, <<"a", "b">>, <<"b", "a">> }

\* "aa" is in no name, though its first character is
FindSubs == { <<>>, <<"a">>, <<"b">>, <<"a", "b">>, <<"a", "a">> }

FindLists ==
    { [i \in 1..Len(s) |-> MkEntry(i - 1, s[i])] :
        s \in UNION { [1..n -> FindNames] : n \in 1..MaxFindLen } }

InitFind ==
    /\ charlist \in FindLists
    /\ showcombining = TRUE
    /\ UIIdle
    /\ NoBlocks
    /\ lastsubstring = <<>>
    /\ NoCall

CallFind ==
    \E s \in FindSubs \cup {NULL}, start \in 0..(charlistsize - 1),
       dir \in {1, 0 - 1} :
        LET f == findcharbyname(s, start, dir, lastsubstring)
        IN  /\ fn' = "findcharbyname"
            /\ sarg' = s
            /\ a1' = start
            /\ a2' = dir
            /\ r1' = f.res
            /\ r2' = 0
            /\ visited' = f.seen
            /\ lastsubstring' = f.last
            /\ UNCHANGED <<charlist, uivars, lastfound, cells>>

NextFind == CallFind

SpecFind == InitFind /\ [][NextFind]_vars

\* the name holds the string: the relation the search is to decide
Contains(name, s) ==
    \E k \in 0..(Len(name) - Len(s)) :
        \A j \in 1..Len(s) : name[k + j] = s[j]

MatchesOf(s) == { k \in 0..(charlistsize - 1) : Contains(CL(k).name, s) }

NoRepeat(seq) ==
    \A i \in 1..Len(seq) : \A j \in 1..Len(seq) : seq[i] = seq[j] => i = j

(***************************************************************************)
(* C4.  A search for a (non-empty) string that exactly one name holds      *)
(* returns that entry's index from every start index of the list and in    *)
(* both directions, examining no entry twice; so it does when the match is *)
(* the start index itself.  (The empty string is the "absent" substring of *)
(* C6 and C7, not a string to search for.)                                 *)
(***************************************************************************)
C4_SingleMatch ==
    (/\ fn = "findcharbyname"
     /\ sarg # NULL
     /\ sarg # <<>>
     /\ Cardinality(MatchesOf(sarg)) = 1)
    => /\ r1 \in MatchesOf(sarg)
       /\ NoRepeat(visited)
       /\ Len(visited) <= charlistsize

\* the only match is the start index, found after the whole list was examined
C4_Witness ==
    /\ fn = "findcharbyname"
    /\ sarg # NULL
    /\ sarg # <<>>
    /\ charlistsize >= 3
    /\ MatchesOf(sarg) = {a1}
    /\ r1 = a1
    /\ Len(visited) = charlistsize

(***************************************************************************)
(* The block list: emptyblocksinit (src/ubrowse.c:178-197), drawblocklist  *)
(* (486-514) and the result of blockselectui (522-560).  Index i of the C  *)
(* arrays blocklist and emptyblocks is blocklist[i + 1], emptyblocks[i + 1]*)
(* here.                                                                   *)
(***************************************************************************)
blocklistsize == Len(blocklist)

BL(i) == blocklist[i + 1]

\* lines 187-188 and 191-192: the value lies within the block
InBlock(v, b) == v >= b.from /\ v <= b.to

\* a mutant of EmptyFlag: the successor of the nearest entry is not looked at
EmptyFlagNearestOnly(i) ==
    LET n == lookupchar(BL(i).from)
    IN  ~InBlock(CL(n).uchar, BL(i))

\* lines 186-195: the flag of block i
EmptyFlag(i) ==
    LET n == lookupchar(BL(i).from)
    IN  IF InBlock(CL(n).uchar, BL(i)) THEN FALSE
        ELSE IF n + 1 < charlistsize /\ InBlock(CL(n + 1).uchar, BL(i))
             THEN FALSE
        ELSE TRUE

\* lines 182-196: emptyblocks as the call leaves it, e being what it was
emptyblocksinit(e) ==
    IF e # <<>> THEN e
    ELSE [k \in 1..blocklistsize |-> EmptyFlag(k - 1)]

\* lines 491-495: the first block of the window
BlockTop(sel, ysize, nrows) ==
    LET t0 == sel - (ysize \div 2)
        t1 == IF t0 < 0 THEN 0 ELSE t0
    IN  IF t1 + nrows > blocklistsize THEN blocklistsize - nrows ELSE t1

\* line 499: the blocks the loop reads, from top
BlockRows(top, nrows) ==
    { i \in top..(top + nrows - 1) : i < blocklistsize }

\* lines 486-514: [top, rows], the window's first block and the blocks read
drawblocklist(sel, ysize, nrows) ==
    [top |-> BlockTop(sel, ysize, nrows),
     rows |-> BlockRows(BlockTop(sel, ysize, nrows), nrows)]

\* a mutant of BlockOf: the scan runs to the end of the list, so that the
\* last block that ends at or after the value is taken
BlockOfLast(v) ==
    IF \E i \in 0..(blocklistsize - 1) : BL(i).to >= v
    THEN CHOOSE i \in 0..(blocklistsize - 1) :
            /\ BL(i).to >= v
            /\ \A j \in (i + 1)..(blocklistsize - 1) : BL(j).to < v
    ELSE blocklistsize

\* lines 527-530: the first block that ends at or after the value
BlockOf(v) ==
    IF \E i \in 0..(blocklistsize - 1) : BL(i).to >= v
    THEN CHOOSE i \in 0..(blocklistsize - 1) :
            /\ BL(i).to >= v
            /\ \A j \in 0..(i - 1) : BL(j).to < v
    ELSE blocklistsize

\* lines 533-536: selected as the loop of blockselectui clamps it
ClampSelected(s) ==
    LET s0 == IF s < 0 THEN 0 ELSE s
    IN  IF s0 >= blocklistsize THEN blocklistsize - 1 ELSE s0

\* line 559: the index blockselectui returns for the block confirmed
BlockConfirmResult(sel) == lookupchar(BL(sel).from)

(***************************************************************************)
(* The block specification: the three functions applied to every           *)
(* ascending list of 1..MaxBlockLen codepoints out of 0..MaxBlockVal and   *)
(* every list of 1..MaxBlocks blocks within 0..MaxBlockVal, ascending and  *)
(* disjoint as the Unicode blocks are; terminals of 1..MaxBlockRows lines. *)
(***************************************************************************)
MaxBlockLen == 3
MaxBlockVal == 4
MaxBlocks == 2
MaxBlockRows == 3

BlockCharLists ==
    { [i \in 1..Len(s) |-> MkEntry(s[i], <<"a">>)] :
        s \in { t \in UNION { [1..n -> 0..MaxBlockVal] : n \in 1..MaxBlockLen } :
                  Ascending(t) } }

MkBlock(f, t) == [from |-> f, to |-> t]

\* 2n ascending bounds make n blocks: from <= to < the next from
BlockBounds(t) ==
    \A i \in 1..(Len(t) - 1) :
        IF i % 2 = 1 THEN t[i] <= t[i + 1] ELSE t[i] < t[i + 1]

BlockLists ==
    { [i \in 1..(Len(t) \div 2) |-> MkBlock(t[2 * i - 1], t[2 * i])] :
        t \in { u \in UNION { [1..(2 * n) -> 0..MaxBlockVal] :
                                n \in 1..MaxBlocks } : BlockBounds(u) } }

BlockYSizes == 1..MaxBlockRows

InitBlock ==
    /\ charlist \in BlockCharLists
    /\ showcombining = TRUE
    /\ UIIdle
    /\ blocklist \in BlockLists
    /\ emptyblocks = <<>>
    /\ lastsubstring = <<>>
    /\ NoCall

BlockFrame ==
    UNCHANGED <<charlist, termvars, columncount, index, tablesize, pc, beep,
                inputvars, showcombining, blocklist, selected, screenvars,
                procvars, key, lastsubstring, lastfound, sarg, cells>>

\* emptyblocksinit()
CallEmptyBlocksInit ==
    /\ fn' = "emptyblocksinit"
    /\ a1' = 0
    /\ a2' = 0
    /\ r1' = 0
    /\ r2' = 0
    /\ visited' = <<>>
    /\ emptyblocks' = emptyblocksinit(emptyblocks)
    /\ BlockFrame

\* the numbers of a set, in ascending order
RECURSIVE SortedSeq(_)
SortedSeq(S) ==
    IF S = {} THEN <<>>
    ELSE LET lo == CHOOSE x \in S : \A y \in S : x <= y
         IN  <<lo>> \o SortedSeq(S \ {lo})

\* drawblocklist(a1) on a terminal of a2 lines: r1 = top, visited = the
\* blocks read
CallDrawBlockList ==
    \E sel \in 0..(blocklistsize - 1), y \in BlockYSizes :
        LET d == drawblocklist(sel, y, y - 1)
        IN  /\ fn' = "drawblocklist"
            /\ a1' = sel
            /\ a2' = y
            /\ r1' = d.top
            /\ r2' = 0
            /\ visited' = SortedSeq(d.rows)
            /\ UNCHANGED emptyblocks
            /\ BlockFrame

\* blockselectui left with Enter on block a1, which is not flagged empty:
\* r1 = the index returned
CallBlockConfirm ==
    /\ emptyblocks # <<>>
    /\ \E sel \in 0..(blocklistsize - 1) :
        /\ ~emptyblocks[sel + 1]
        /\ fn' = "blockselectui"
        /\ a1' = sel
        /\ a2' = 0
        /\ r1' = BlockConfirmResult(sel)
        /\ r2' = 0
        /\ visited' = <<>>
        /\ UNCHANGED emptyblocks
        /\ BlockFrame

\* blockselectui entered with index a1: r1 = selected as the block list is
\* first drawn with it (lines 527-537)
CallBlockEnter ==
    \E i \in 0..(charlistsize - 1) :
        /\ fn' = "blockenter"
        /\ a1' = i
        /\ a2' = 0
        /\ r1' = ClampSelected(BlockOf(CL(i).uchar))
        /\ r2' = 0
        /\ visited' = <<>>
        /\ emptyblocks' = emptyblocksinit(emptyblocks)
        /\ BlockFrame

NextBlock ==
    \/ CallEmptyBlocksInit
    \/ CallDrawBlockList
    \/ CallBlockConfirm
    \/ CallBlockEnter

SpecBlock == InitBlock /\ [][NextBlock]_vars

\* the entries of the block
EntriesIn(b) == { k \in 0..(charlistsize - 1) : InBlock(CL(k).uchar, b) }

(***************************************************************************)
(* C13.  Confirming a block that is not empty returns the index of the     *)
(* block's first codepoint: the lowest-valued entry e with                 *)
(* from <= e.uchar <= to, also when from itself is not in the list.        *)
(***************************************************************************)
C13_FirstOfBlock ==
    fn = "blockselectui" =>
        /\ r1 \in EntriesIn(BL(a1))
        /\ \A k \in EntriesIn(BL(a1)) : r1 <= k

(***************************************************************************)
(* C17.  The window of drawblocklist: for every selected block and every   *)
(* terminal height the first block of the window is >= 0 and every block   *)
(* read has an index in 0..blocklistsize-1.                                *)
(***************************************************************************)
C17_BlockWindowInBounds ==
    fn = "drawblocklist" =>
        /\ r1 >= 0
        /\ \A k \in 1..Len(visited) : visited[k] \in 0..(blocklistsize - 1)

(***************************************************************************)
(* C18.  Block emptiness is exact: once emptyblocksinit has run, the flag  *)
(* of every block is TRUE exactly when no entry of the list has a value    *)
(* within the block; and flags once computed are never changed.            *)
(***************************************************************************)
C18_EmptinessExact ==
    /\ [](emptyblocks # <<>> =>
            /\ Len(emptyblocks) = blocklistsize
            /\ \A i \in 0..(blocklistsize - 1) :
                  emptyblocks[i + 1] <=> (EntriesIn(BL(i)) = {}))
    /\ [][emptyblocks # <<>> => emptyblocks' = emptyblocks]_vars

\* the flags are set; one block is not empty though its first codepoint is
\* not the entry nearest to from, and another block is empty
C18_Witness ==
    /\ emptyblocks # <<>>
    /\ fn = "blockselectui"
    /\ \E i \in 0..(blocklistsize - 1) :
          /\ ~emptyblocks[i + 1]
          /\ lookupchar(BL(i).from) \notin EntriesIn(BL(i))
    /\ \E i \in 0..(blocklistsize - 1) : emptyblocks[i + 1]

\* the blocks that end at or after the value
BlocksUpTo(v) == { b \in 0..(blocklistsize - 1) : BL(b).to >= v }

(***************************************************************************)
(* C21.  On entering the block list from an index within the character    *)
(* list, the block first selected is the lowest-indexed block whose to is  *)
(* >= the value of the entry at index, and the last block when no block    *)
(* has such a to.                                                          *)
(***************************************************************************)
C21_InitialBlock ==
    fn = "blockenter" =>
        IF BlocksUpTo(CL(a1).uchar) = {}
        THEN r1 = blocklistsize - 1
        ELSE /\ r1 \in BlocksUpTo(CL(a1).uchar)
             /\ \A b \in BlocksUpTo(CL(a1).uchar) : r1 <= b

\* the entry lies above both blocks of the list, and the last block is the
\* one selected
C21_Witness ==
    /\ fn = "blockenter"
    /\ blocklistsize = 2
    /\ BlocksUpTo(CL(a1).uchar) = {}
    /\ r1 = 1

(***************************************************************************)
(* The main table: mainui, src/ubrowse.c:679-720, with drawtable           *)
(* (626-642), searchui (396-419), jumpui (425-440), doinputui (319-390),   *)
(* blockselectui (522-560), the help and version displays (445-481,        *)
(* 646-673) and the program's start and end (main 788-797, ioinit 269-280, *)
(* die 246-256, shutdown 238-242).                                         *)
(*                                                                         *)
(* pc is "ioinit" before main calls ioinit (line 794), "die" and "diemsg"  *)
(* inside die (lines 250 and 251-255), "loop" at the top of mainui's       *)
(* for (;;) (line 683), "getch" at the getch() of line 695, "search" and   *)
(* "jump" at the getch() of doinputui (line 335) called by searchui and by *)
(* jumpui, "blockloop" at the top of blockselectui's while (line 532),     *)
(* "blockgetch" at its getch() (line 538), "mainhelp", "blockhelp",        *)
(* "mainversion" and "blockversion" at the getch() of the help texts       *)
(* (lines 672, 480) and of showversion (line 450) called from mainui or    *)
(* from blockselectui, "atexit" once exit has been called or main has      *)
(* returned, and "exit" once the process has ended.  Undefined behaviour   *)
(* ends in one of the outcomes a build can produce:                        *)
(*   "drawfpe"      killed by the division by zero of line 628             *)
(*   "drawloop"     the division gave 0 and the for of line 633 never ends *)
(*   "drawcrash"    killed reading charlist outside its bounds (635, 639)  *)
(*   "searchcrash"  killed writing outside searchstring (lines 409-410)    *)
(*   "inputcrash"   killed reading or writing outside doinputui's buffer   *)
(*   "blockcrash"   killed reading the block list outside its bounds       *)
(* and "findloop" is the for (;;) of findcharbyname that never returns.    *)
(***************************************************************************)
\* the terminal is up to MaxCols columns of the table wide
MaxCols == 2
\* and up to MaxRows rows high
MaxRows == 2
\* longest character list of the main table's specification
MaxUILen == 2
\* the user types at most MaxType characters at a prompt
MaxType == 2

\* the narrowest terminals that hold 0, 1, ... MaxCols columns of the table
\* (lines 688-689)
XSizes == { 9 * c + 1 : c \in 0..MaxCols }

YSizes == 1..MaxRows

\* measurescreen, lines 261-265
measurescreen(x, y) ==
    /\ xtermsize' = x
    /\ ytermsize' = y
    /\ lastrow' = y - 1

\* the terminal takes a new size
ScreenResized(x, y) ==
    /\ xscreen' = x
    /\ yscreen' = y

\* the codepoints of the main table's lists: 0, 1, 0x1000, 0x1001, ...
UIValue(i) == (i \div 2) * JumpOffset + (i % 2)

UINames == { <<"a">>, <<"b">> }

UILists ==
    { [i \in 1..Len(s) |-> MkEntry(UIValue(i - 1), s[i])] :
        s \in UNION { [1..n -> UINames] : n \in 1..MaxUILen } }

\* the blocks of the main table's specification: 0..0, 1..0xFFF and
\* 0x1000..0x1FFF
UIBlocks ==
    << MkBlock(0, 0), MkBlock(1, JumpOffset - 1),
       MkBlock(JumpOffset, 2 * JumpOffset - 1) >>

\* data.h's version string is there and not empty, as the build makes it
unicodeversion == TRUE

\* the keys typed at a prompt: 'a' and 'A'
TypedChars == { "a", "A" }

\* tolower, line 410
tolower(c) == IF c = "A" THEN "a" ELSE c

\* isprint, the validchar of the search prompt (line 404)
isprint(c) == c \in TypedChars

\* isxdigit, the validchar of the jump prompt (line 431)
isxdigit(c) == c \in {"a", "A"}

\* strlen(prompt) with prompt "/", line 404
SearchPromptLen == 1

\* sizeof searchstring, line 398
SearchStringSize == 256

\* strlen(prompt) with prompt "U+", line 431
JumpPromptLen == 2

\* sizeof buf, line 427
JumpBufSize == 7

\* C's integer division, which truncates towards zero (b > 0)
CDiv(a, b) == IF a >= 0 THEN a \div b ELSE 0 - ((0 - a) \div b)

\* lines 686-689: columncount as mainui clamps it
ClampColumns(cc, xsize) ==
    IF cc < 1 THEN 1
    ELSE IF cc > CDiv(xsize - 1, mincolumnwidth + 1)
         THEN CDiv(xsize - 1, mincolumnwidth + 1)
    ELSE cc

\* lines 684-685 and 691-692: index as mainui clamps it
ClampIndex(i, tsize) ==
    LET i0 == IF i < 0 THEN 0 ELSE i
    IN  IF i0 > charlistsize - tsize THEN charlistsize - tsize ELSE i0

RECURSIVE DrawColumns(_, _, _, _, _)
\* lines 633-637: one column of nrows entries for every x, returning i
DrawColumns(x, colwidth, xsize, nrows, i) ==
    IF x <= xsize - colwidth
    THEN DrawColumns(x + colwidth, colwidth, xsize, nrows, i + nrows)
    ELSE i

\* drawtable's return value i: one past the last entry drawn (cc # 0)
drawtable(i, cc, xsize, nrows) ==
    DrawColumns(0, xsize \div cc, xsize, nrows, i)

\* the entries of charlist that drawtable(i) reads: the ones it draws
\* (line 635) and the two of the status line (line 639)
DrawReads(i, cc, xsize, nrows) ==
    (i..(drawtable(i, cc, xsize, nrows) - 1))
        \cup {i, drawtable(i, cc, xsize, nrows) - 1}

\* a step of mainui that ends at the bottom of the for (;;)
BackToLoop(newindex, b) ==
    /\ index' = newindex
    /\ beep' = b
    /\ pc' = "loop"

\* lines 684-694: the clamps, and the table drawn
Render ==
    /\ pc = "loop"
    /\ LET cc == ClampColumns(columncount, xtermsize)
           ts == (ytermsize - 1) * cc
           i  == ClampIndex(index, ts)
       IN  /\ columncount' = cc
           /\ tablesize' = ts
           /\ index' = i
           /\ IF cc = 0
              THEN pc' \in {"drawfpe", "drawloop"}
              ELSE IF DrawReads(i, cc, xtermsize, lastrow)
                          \subseteq 0..(charlistsize - 1)
                   THEN pc' = "getch"
                   ELSE pc' \in {"getch", "drawcrash"}
    /\ beep' = FALSE
    /\ UNCHANGED <<fixed, termvars, inputvars, lastsubstring, lastfound,
                   callvars, blockvars, screenvars, procvars, key>>

AtGetch(newindex) ==
    /\ pc = "getch"
    /\ BackToLoop(newindex, FALSE)
    /\ key' = "other"
    /\ UNCHANGED <<fixed, termvars, columncount, tablesize, inputvars,
                   lastsubstring, lastfound, callvars, blockvars, screenvars,
                   procvars>>

\* line 696, '+'
KeyPlus == AtGetch(index + 1)

\* line 697, '-'
KeyMinus == AtGetch(index - 1)

\* line 698, '>'
KeyRight == AtGetch(index + (ytermsize - 1))

\* line 699, '<'
KeyLeft == AtGetch(index - (ytermsize - 1))

\* line 700, 'F'
KeyForward == AtGetch(index + tablesize)

\* line 701, 'B'
KeyBack == AtGetch(index - tablesize)

\* offsetchar(index, d) as mainui calls it: charlist[index] read outside the
\* list is any value, and lookupchar maps it to some entry
OffsetFrom(i, d) ==
    IF ValidIndex(i) THEN {offsetchar(i, d)} ELSE 0..(charlistsize - 1)

\* line 702, '}'
KeyJumpForward == \E n \in OffsetFrom(index, JumpOffset) : AtGetch(n)

\* line 703, '{'
KeyJumpBack == \E n \in OffsetFrom(index, 0 - JumpOffset) : AtGetch(n)

\* lines 711-712, '[' and ']'
KeyColumns(d) ==
    /\ pc = "getch"
    /\ columncount' = columncount + d
    /\ BackToLoop(index, FALSE)
    /\ key' = "other"
    /\ UNCHANGED <<fixed, termvars, tablesize, inputvars, lastsubstring,
                   lastfound, callvars, blockvars, screenvars, procvars>>

KeyAddColumn == KeyColumns(1)

KeyRemoveColumn == KeyColumns(0 - 1)

\* lines 289-292 and 715: KEY_RESIZE, the screen measured again
KeyResize ==
    /\ pc = "getch"
    /\ \E x \in XSizes, y \in YSizes :
        /\ ScreenResized(x, y)
        /\ measurescreen(x, y)
    /\ BackToLoop(index, FALSE)
    /\ key' = "other"
    /\ UNCHANGED <<fixed, columncount, tablesize, inputvars,
                   lastsubstring, lastfound, callvars, blockvars, procvars>>

\* line 715, '\f', and every key that no case names
KeyRedraw == AtGetch(index)

\* exit(status) is called, or main returns status
Exiting(code) ==
    /\ pc' = "atexit"
    /\ status' = code
    /\ beep' = FALSE
    /\ UNCHANGED <<curses, errtext>>

\* line 716, 'q': mainui returns and main returns 0 (line 796)
KeyQuit ==
    /\ pc = "getch"
    /\ Exiting(0)
    /\ key' = "other"
    /\ UNCHANGED <<fixed, termvars, columncount, index, tablesize,
                   inputvars, lastsubstring, lastfound, callvars, blockvars,
                   screenvars>>

\* line 717, '\003': exit(EXIT_SUCCESS)
KeyInterrupt ==
    /\ pc = "getch"
    /\ Exiting(0)
    /\ key' = "^C"
    /\ UNCHANGED <<fixed, termvars, columncount, index, tablesize,
                   inputvars, lastsubstring, lastfound, callvars, blockvars,
                   screenvars>>

\* lines 331-333 and 376-378: the room for input
InputMax(xsize, promptlen, inputsize) ==
    IF xsize - promptlen > inputsize - 1 THEN inputsize - 1
    ELSE xsize - promptlen

\* lines 414-418 and 704-706: searchui's result becomes mainui's index
SearchResult(res, last, found) ==
    /\ lastsubstring' = last
    /\ lastfound' = found
    /\ IF res = Diverges
       THEN /\ pc' = "findloop"
            /\ beep' = FALSE
            /\ index' = index
       ELSE IF res < 0 THEN BackToLoop(index, TRUE)
       ELSE BackToLoop(res, FALSE)

\* lines 401-402, 705-706: 'n' (direction +1) and 'p' (direction -1)
KeyRepeat(direction) ==
    /\ pc = "getch"
    /\ LET f == findcharbyname(NULL, index, direction, lastsubstring)
       IN  SearchResult(f.res, f.last, lastfound)
    /\ key' = "other"
    /\ UNCHANGED <<fixed, termvars, columncount, tablesize, inputvars,
                   callvars, blockvars, screenvars, procvars>>

KeyNext == KeyRepeat(1)

KeyPrevious == KeyRepeat(0 - 1)

\* lines 327-333: doinputui entered from mainui's getch
OpenPrompt(mode, promptlen, inputsize) ==
    /\ pc = "getch"
    /\ pc' = mode
    /\ beep' = FALSE
    /\ key' = "other"
    /\ input' = <<>>
    /\ inputlen' = 0
    /\ inputmax' = InputMax(xtermsize, promptlen, inputsize)
    /\ UNCHANGED <<fixed, termvars, columncount, index, tablesize,
                   lastsubstring, lastfound, callvars, blockvars, screenvars,
                   procvars>>

\* lines 704, 404: '/', the search prompt opened
KeySearch == OpenPrompt("search", SearchPromptLen, SearchStringSize)

\* lines 707-708, 431: 'u' and 's', the jump prompt opened
KeyJump == OpenPrompt("jump", JumpPromptLen, JumpBufSize)

\* doinputui is at its getch()
AtPrompt == pc \in {"search", "jump"}

\* strlen(prompt) of the prompt that is open
PromptLen == IF pc = "search" THEN SearchPromptLen ELSE JumpPromptLen

\* inputsize of the prompt that is open
InputSize == IF pc = "search" THEN SearchStringSize ELSE JumpBufSize

\* validchar of the prompt that is open
validchar(c) == IF pc = "search" THEN isprint(c) ELSE isxdigit(c)

InputFrame ==
    UNCHANGED <<fixed, columncount, index, tablesize, lastsubstring,
                lastfound, callvars, blockvars, procvars>>

\* an access to input[k]: outside the buffer it may kill the program
InputAccess(k) ==
    IF k < 0 THEN pc' \in {pc, "inputcrash"} ELSE pc' = pc

\* lines 338-344: a permitted character
InputChar ==
    /\ AtPrompt
    /\ inputlen < MaxType
    /\ \E ch \in TypedChars :
        /\ validchar(ch)
        /\ IF inputlen < inputmax
           THEN /\ input' = IF inputlen < 0 THEN input ELSE Append(input, ch)
                /\ inputlen' = inputlen + 1
                /\ beep' = FALSE
                /\ InputAccess(inputlen)
           ELSE /\ UNCHANGED <<input, inputlen, pc>>
                /\ beep' = TRUE
    /\ key' = "other"
    /\ UNCHANGED <<inputmax, termvars, screenvars>>
    /\ InputFrame

\* lines 354-364: KEY_BACKSPACE, '\010', '\177'
InputErase ==
    /\ AtPrompt
    /\ inputlen > 0 - MaxType
    /\ IF inputlen # 0
       THEN /\ inputlen' = inputlen - 1
            /\ input' = SubSeq(input, 1, inputlen - 1)
            /\ beep' = FALSE
       ELSE /\ UNCHANGED <<input, inputlen>>
            /\ beep' = TRUE
    /\ key' = "other"
    /\ UNCHANGED <<pc, inputmax, termvars, screenvars>>
    /\ InputFrame

\* lines 346-347 and 365-369: the kill character, '\025'
InputKill ==
    /\ AtPrompt
    /\ inputlen' = 0
    /\ input' = <<>>
    /\ beep' = FALSE
    /\ key' = "other"
    /\ UNCHANGED <<pc, inputmax, termvars, screenvars>>
    /\ InputFrame

\* lines 374-384: KEY_RESIZE at the prompt.  addnstr(input, inputlen) with
\* a negative inputlen prints input up to a NUL that was never written
InputResize ==
    /\ AtPrompt
    /\ \E x \in XSizes, y \in YSizes :
        /\ ScreenResized(x, y)
        /\ measurescreen(x, y)
        /\ LET imax == InputMax(x, PromptLen, InputSize)
               ilen == IF inputlen >= imax THEN imax ELSE inputlen
           IN  /\ inputmax' = imax
               /\ inputlen' = ilen
               /\ input' = IF inputlen >= imax THEN SubSeq(input, 1, imax)
                           ELSE input
               /\ InputAccess(ilen)
    /\ beep' = FALSE
    /\ key' = "other"
    /\ InputFrame

\* lines 338 and 348-385: a key that validchar refuses and no case names,
\* '\003' among them: nothing is done with it
InputIgnore ==
    /\ AtPrompt
    /\ key' \in {"^C", "other"}
    /\ beep' = FALSE
    /\ UNCHANGED <<pc, inputvars, termvars, screenvars>>
    /\ InputFrame

\* doinputui and its caller return: their locals are gone
InputReturn ==
    /\ input' = <<>>
    /\ inputlen' = 0
    /\ inputmax' = 0

\* a mutant of CancelResult: the table goes back to its first entry
CancelResultFirst(i) == 0

\* lines 405-406, 432-433, 548-549: a sub-mode that was cancelled returns
\* the index it was given
CancelResult(i) == i

\* lines 336-337 and 370-373, then 405-406 or 432-433: getch() fails, or
\* '\007'; doinputui returns -1 and its caller the index it was given
InputCancel ==
    /\ AtPrompt
    /\ BackToLoop(CancelResult(index), FALSE)
    /\ key' = "^G"
    /\ InputReturn
    /\ UNCHANGED <<fixed, termvars, columncount, tablesize,
                   lastsubstring, lastfound, callvars, blockvars, screenvars,
                   procvars>>

\* lines 409-410: the string typed, in lower case
LowerCase(s) == [k \in 1..Len(s) |-> tolower(s[k])]

\* lines 407-411 when doinputui returned 0.  findcharbyname(NULL, ...) is
\* called and its result n is only the count of the loop of lines 409-410:
\* n = -1 runs while (n--) from -1 downwards, writing below searchstring
\* until the program is killed; n >= 0 passes searchstring[n-1..0] through
\* tolower, outside the buffer when n > sizeof searchstring.  Then the empty
\* string in searchstring is searched for (line 411).
EmptyInputSearch(start, last) ==
    LET f1 == findcharbyname(NULL, start, 1, last)
        f2 == findcharbyname(<<>>, start, 1, f1.last)
    IN  IF f1.res = Diverges
        THEN [crash |-> {FALSE}, res |-> Diverges, last |-> f1.last]
        ELSE IF f1.res < 0
        THEN [crash |-> {TRUE}, res |-> f1.res, last |-> f1.last]
        ELSE [crash |-> IF f1.res > SearchStringSize THEN {TRUE, FALSE}
                        ELSE {FALSE},
              res |-> f2.res, last |-> f2.last]

\* lines 349-353, 388-389, then 407-418: Enter; doinputui returns inputlen
\* and searchui searches
InputConfirm ==
    /\ pc = "search"
    /\ IF inputlen = 0
       THEN LET e == EmptyInputSearch(index, lastsubstring)
            IN  \E c \in e.crash :
                  IF c
                  THEN /\ pc' = "searchcrash"
                       /\ beep' = FALSE
                       /\ UNCHANGED <<index, lastsubstring, lastfound>>
                  ELSE SearchResult(e.res, e.last, lastfound)
       ELSE LET s == LowerCase(input)
                f == findcharbyname(s, index, 1, lastsubstring)
            IN  SearchResult(f.res, f.last,
                             IF f.res >= 0 THEN s ELSE lastfound)
    /\ key' = "other"
    /\ InputReturn
    /\ UNCHANGED <<fixed, termvars, columncount, tablesize, callvars,
                   blockvars, screenvars, procvars>>

\* the value of a hexadecimal digit
HexDigit(c) == IF c \in {"a", "A"} THEN 10 ELSE 0

RECURSIVE strtoul(_)
\* strtoul(buf, NULL, 16), line 434, of a string of hexadecimal digits: the
\* empty string gives 0
strtoul(s) ==
    IF s = <<>> THEN 0
    ELSE 16 * strtoul(SubSeq(s, 1, Len(s) - 1)) + HexDigit(s[Len(s)])

\* lines 349-353, 388-389, then 432-439: Enter at the jump prompt.  A
\* negative inputlen makes line 388 write below buf; doinputui then returns
\* it and jumpui takes it for a cancel (line 432)
JumpConfirm ==
    /\ pc = "jump"
    /\ IF inputlen < 0
       THEN /\ pc' \in {"loop", "inputcrash"}
            /\ index' = index
            /\ beep' = FALSE
       ELSE IF strtoul(input) > lastucharval
       THEN BackToLoop(index, TRUE)
       ELSE BackToLoop(lookupchar(strtoul(input)), FALSE)
    /\ key' = "other"
    /\ InputReturn
    /\ UNCHANGED <<fixed, termvars, columncount, tablesize, lastsubstring,
                   lastfound, callvars, blockvars, screenvars, procvars>>

\* lines 709-710, 526-531: 'j' and 'b', the block list entered.
\* charlist[index] read outside the list is any value
KeyBlock ==
    /\ pc = "getch"
    /\ emptyblocks' = emptyblocksinit(emptyblocks)
    /\ selected' \in IF ValidIndex(index) THEN {BlockOf(CL(index).uchar)}
                     ELSE 0..blocklistsize
    /\ pc' = "blockloop"
    /\ beep' = FALSE
    /\ key' = "other"
    /\ UNCHANGED <<fixed, termvars, columncount, index, tablesize, inputvars,
                   lastsubstring, lastfound, callvars, screenvars, procvars>>

\* what no step of blockselectui's loop writes, selected and pc apart
BlockLoopFrame ==
    UNCHANGED <<fixed, columncount, index, tablesize, inputvars,
                lastsubstring, lastfound, callvars, emptyblocks, procvars>>

\* lines 533-537: selected clamped, and the block list drawn
BlockRender ==
    /\ pc = "blockloop"
    /\ selected' = ClampSelected(selected)
    /\ IF drawblocklist(ClampSelected(selected), ytermsize, lastrow).rows
             \subseteq 0..(blocklistsize - 1)
       THEN pc' = "blockgetch"
       ELSE pc' \in {"blockgetch", "blockcrash"}
    /\ beep' = FALSE
    /\ UNCHANGED <<termvars, screenvars, key>>
    /\ BlockLoopFrame

AtBlockGetch(newselected) ==
    /\ pc = "blockgetch"
    /\ selected' = newselected
    /\ pc' = "blockloop"
    /\ beep' = FALSE
    /\ key' = "other"
    /\ UNCHANGED <<termvars, screenvars>>
    /\ BlockLoopFrame

\* line 539, '+'
BlockPlus == AtBlockGetch(selected + 1)

\* line 540, '-'
BlockMinus == AtBlockGetch(selected - 1)

\* line 541, 'F'
BlockForward == AtBlockGetch(selected + (ytermsize - 1))

\* line 542, 'B'
BlockBack == AtBlockGetch(selected - (ytermsize - 1))

\* line 543, '{'
BlockFirst == AtBlockGetch(0)

\* line 544, '}'
BlockLast == AtBlockGetch(blocklistsize)

\* line 547, '\f', and every key that no case names
BlockRedraw == AtBlockGetch(selected)

\* lines 289-292 and 547: KEY_RESIZE, the screen measured again
BlockResize ==
    /\ pc = "blockgetch"
    /\ \E x \in XSizes, y \in YSizes :
        /\ ScreenResized(x, y)
        /\ measurescreen(x, y)
    /\ pc' = "blockloop"
    /\ beep' = FALSE
    /\ key' = "other"
    /\ UNCHANGED selected
    /\ BlockLoopFrame

\* lines 548-549: 'q' or '\007', the index given is returned
BlockCancel ==
    /\ pc = "blockgetch"
    /\ BackToLoop(CancelResult(index), FALSE)
    /\ selected' = 0
    /\ key' = "^G"
    /\ UNCHANGED <<fixed, termvars, columncount, tablesize, inputvars,
                   lastsubstring, lastfound, callvars, emptyblocks,
                   screenvars, procvars>>

\* line 550, '\003': exit(EXIT_SUCCESS)
BlockInterrupt ==
    /\ pc = "blockgetch"
    /\ Exiting(0)
    /\ key' = "^C"
    /\ UNCHANGED <<fixed, termvars, columncount, index, tablesize,
                   inputvars, lastsubstring, lastfound, callvars, blockvars,
                   screenvars>>

\* lines 551-559: Enter; an empty block is refused, any other is gone to
BlockConfirm ==
    /\ pc = "blockgetch"
    /\ IF emptyblocks[selected + 1]
       THEN /\ beep' = TRUE
            /\ pc' = "blockloop"
            /\ UNCHANGED <<index, selected>>
       ELSE /\ BackToLoop(BlockConfirmResult(selected), FALSE)
            /\ selected' = 0
    /\ key' = "other"
    /\ UNCHANGED <<fixed, termvars, columncount, tablesize, inputvars,
                   lastsubstring, lastfound, callvars, emptyblocks,
                   screenvars, procvars>>

\* what the help and version displays never write
OverlayFrame ==
    UNCHANGED <<fixed, termvars, columncount, index, tablesize, inputvars,
                lastsubstring, lastfound, callvars, blockvars, procvars>>

\* lines 713 and 545, '?': the help text shown, up to its getch()
ShowHelp(at, overlay) ==
    /\ pc = at
    /\ pc' = overlay
    /\ beep' = FALSE
    /\ key' = "other"
    /\ UNCHANGED screenvars
    /\ OverlayFrame

KeyHelp == ShowHelp("getch", "mainhelp")

BlockHelp == ShowHelp("blockgetch", "blockhelp")

\* lines 714 and 546, 'v', showversion (445-454): the version shown, up to
\* its getch(), or a beep when there is none
ShowVersion(at, overlay, back) ==
    /\ pc = at
    /\ IF unicodeversion
       THEN /\ pc' = overlay
            /\ beep' = FALSE
       ELSE /\ pc' = back
            /\ beep' = TRUE
    /\ key' = "other"
    /\ UNCHANGED screenvars
    /\ OverlayFrame

KeyVersion == ShowVersion("getch", "mainversion", "loop")

BlockVersion == ShowVersion("blockgetch", "blockversion", "blockloop")

\* a help text or the version is on the screen
AtOverlay == pc \in {"mainhelp", "mainversion", "blockhelp", "blockversion"}

\* where the display returns to
OverlayReturn ==
    IF pc \in {"mainhelp", "mainversion"} THEN "loop" ELSE "blockloop"

\* lines 672, 480, 450: (void)getch(), whatever the key, '\003' included
OverlayKey ==
    /\ AtOverlay
    /\ pc' = OverlayReturn
    /\ beep' = FALSE
    /\ key' \in {"^C", "other"}
    /\ UNCHANGED screenvars
    /\ OverlayFrame

\* lines 672, 480, 450: the terminal is resized and the getch() reads
\* KEY_RESIZE, which does not pass through translatekey
OverlayResize ==
    /\ AtOverlay
    /\ \E x \in XSizes, y \in YSizes : ScreenResized(x, y)
    /\ pc' = OverlayReturn
    /\ beep' = FALSE
    /\ key' = "other"
    /\ OverlayFrame

\* what the start and the end of the program never write
ProcFrame ==
    UNCHANGED <<fixed, columncount, index, tablesize, inputvars,
                lastsubstring, lastfound, callvars, blockvars, screenvars,
                beep, key>>

\* lines 794-795 and 269-280: ioinit, whose result main does not look at,
\* and mainui entered.  initscr either puts the terminal into curses mode,
\* and the screen is measured, or returns NULL
IoInit ==
    /\ pc = "ioinit"
    /\ \/ /\ curses' = "managed"
          /\ measurescreen(xscreen, yscreen)
       \/ /\ curses' = "failed"
          /\ UNCHANGED termvars
    /\ pc' = "loop"
    /\ UNCHANGED <<errtext, status>>
    /\ ProcFrame

\* a mutant of shutdown: endwin is not called
shutdownNoEndwin(c) == c

\* lines 238-242: endwin, unless curses mode has ended
shutdown(c) == IF c = "managed" THEN "ended" ELSE c

\* line 250: die calls shutdown
DieShutdown ==
    /\ pc = "die"
    /\ curses' = shutdown(curses)
    /\ pc' = "diemsg"
    /\ UNCHANGED <<termvars, errtext, status>>
    /\ ProcFrame

\* lines 251-255: die writes its message and calls exit(EXIT_FAILURE)
DieMessage ==
    /\ pc = "diemsg"
    /\ errtext' = TRUE
    /\ status' = 1
    /\ pc' = "atexit"
    /\ UNCHANGED <<termvars, curses>>
    /\ ProcFrame

\* line 271: exit runs shutdown if ioinit registered it, and the process
\* ends
AtExit ==
    /\ pc = "atexit"
    /\ curses' = IF curses = "none" THEN curses ELSE shutdown(curses)
    /\ pc' = "exit"
    /\ UNCHANGED <<termvars, errtext, status>>
    /\ ProcFrame

\* readcmdline, lines 767-783: the start position is an entry given by its
\* character or codepoint, or the first entry after entry 0 whose name holds
\* the string given; a string that no name holds makes readcmdline call die
\* (line 776).  The terminal has a size; xtermsize, ytermsize and lastrow are
\* statics that nothing has set yet
Init ==
    /\ charlist \in UILists
    /\ blocklist = UIBlocks
    /\ xscreen \in XSizes
    /\ yscreen \in YSizes
    /\ xtermsize = 0
    /\ ytermsize = 0
    /\ lastrow = 0
    /\ columncount = 2
    /\ tablesize = 0
    /\ beep = FALSE
    /\ input = <<>>
    /\ inputlen = 0
    /\ inputmax = 0
    /\ showcombining = TRUE
    /\ emptyblocks = <<>>
    /\ selected = 0
    /\ curses = "none"
    /\ errtext = FALSE
    /\ status = 0 - 1
    /\ key = "none"
    /\ \/ /\ index \in 0..(charlistsize - 1)
          /\ lastsubstring = <<>>
          /\ lastfound = <<>>
          /\ pc = "ioinit"
       \/ \E s \in UINames :
            /\ findcharbyname(s, 0, 1, <<>>).res >= 0
            /\ index = findcharbyname(s, 0, 1, <<>>).res
            /\ lastsubstring = findcharbyname(s, 0, 1, <<>>).last
            /\ lastfound = s
            /\ pc = "ioinit"
       \/ \E s \in UINames :
            /\ findcharbyname(s, 0, 1, <<>>).res < 0
            /\ index = 0
            /\ lastsubstring = findcharbyname(s, 0, 1, <<>>).last
            /\ lastfound = <<>>
            /\ pc = "die"
    /\ NoCall

Next ==
    \/ IoInit
    \/ DieShutdown
    \/ DieMessage
    \/ AtExit
    \/ Render
    \/ KeyPlus
    \/ KeyMinus
    \/ KeyRight
    \/ KeyLeft
    \/ KeyForward
    \/ KeyBack
    \/ KeyJumpForward
    \/ KeyJumpBack
    \/ KeyAddColumn
    \/ KeyRemoveColumn
    \/ KeyResize
    \/ KeyRedraw
    \/ KeyQuit
    \/ KeyInterrupt
    \/ KeyNext
    \/ KeyPrevious
    \/ KeySearch
    \/ KeyJump
    \/ KeyBlock
    \/ KeyHelp
    \/ KeyVersion
    \/ InputChar
    \/ InputErase
    \/ InputKill
    \/ InputResize
    \/ InputIgnore
    \/ InputCancel
    \/ InputConfirm
    \/ JumpConfirm
    \/ BlockRender
    \/ BlockPlus
    \/ BlockMinus
    \/ BlockForward
    \/ BlockBack
    \/ BlockFirst
    \/ BlockLast
    \/ BlockRedraw
    \/ BlockResize
    \/ BlockHelp
    \/ BlockVersion
    \/ BlockCancel
    \/ BlockInterrupt
    \/ BlockConfirm
    \/ OverlayKey
    \/ OverlayResize

Spec == Init /\ [][Next]_vars

(***************************************************************************)
(* C5.  A search that no name satisfies ends and reports not-found, from   *)
(* every start index the main table can hand to it: the program is never   *)
(* inside a for (;;) of findcharbyname that does not return.               *)
(***************************************************************************)
C5_SearchTerminates == pc # "findloop"

(***************************************************************************)
(* C6.  A repeated search ('n', 'p': findcharbyname(NULL, ...)) searches   *)
(* for the string of the most recent successful search: lastsubstring is   *)
(* always that string (a search that found nothing has not replaced it),   *)
(* and wherever a repeat can be asked for, it lands on an entry whose name *)
(* holds that string, or fails with not-found when no search has           *)
(* succeeded yet.                                                          *)
(***************************************************************************)
C6_RepeatUsesLastFound ==
    /\ lastsubstring = lastfound
    /\ pc = "getch" =>
         \A dir \in {1, 0 - 1} :
            LET f == findcharbyname(NULL, index, dir, lastsubstring)
            IN  /\ f.last = lastfound
                /\ IF lastfound = <<>> THEN f.res = 0 - 1
                   ELSE f.res \in MatchesOf(lastfound)

\* a search has just failed (beep) after an earlier one succeeded, and the
\* string of the earlier one is still the one remembered
C6_Witness ==
    /\ pc = "loop"
    /\ beep
    /\ lastfound # <<>>
    /\ lastsubstring = lastfound
    /\ Cardinality(MatchesOf(lastfound)) >= 2

(***************************************************************************)
(* C7.  Confirming an empty string at the '/' prompt after a search has    *)
(* succeeded, at an index within the list, does what 'n' does: the main    *)
(* table moves to the entry that                                           *)
(* findcharbyname(NULL, index, +1) finds, and the program is not killed    *)
(* for writing outside searchstring.                                       *)
(***************************************************************************)
C7_EmptyConfirmRepeats ==
    [][(InputConfirm /\ inputlen = 0 /\ lastsubstring # <<>>
          /\ ValidIndex(index))
         => /\ pc' = "loop"
            /\ index' = findcharbyname(NULL, index, 1, lastsubstring).res]_vars

\* the states in which drawtable has just been called
TableDrawn == pc \in {"getch", "drawfpe", "drawloop", "drawcrash"}

(***************************************************************************)
(* C8.  Column-count clamping: whenever the main table is drawn on a       *)
(* terminal that initscr has taken over, after any                         *)
(* column-add, column-remove and resize events and at every terminal width *)
(* W, 1 <= columncount <= floor((W - 1) / (mincolumnwidth + 1)).           *)
(***************************************************************************)
C8_ColumnClamp ==
    (curses = "managed" /\ TableDrawn) =>
        /\ 1 <= columncount
        /\ columncount <= (xtermsize - 1) \div (mincolumnwidth + 1)

(***************************************************************************)
(* C9.  Scroll clamping: whenever the main table is drawn with a column    *)
(* count that is not 0, the first entry drawn has an index >= 0 and the    *)
(* last entry drawn has an index <= charlistsize - 1.                      *)
(***************************************************************************)
C9_WindowInBounds ==
    pc \in {"getch", "drawcrash"} =>
        /\ index >= 0
        /\ drawtable(index, columncount, xtermsize, lastrow) - 1
              <= charlistsize - 1

(***************************************************************************)
(* The table specification: the clamp of mainui (lines 686-690) and        *)
(* drawtable (626-642) applied to every terminal of                        *)
(* mincolumnwidth + 2..MaxTableWidth columns and 1..MaxTableRows lines and *)
(* every column count the user can have asked for, 1..MaxTableCols.        *)
(***************************************************************************)
MaxTableWidth == 100
MaxTableRows == 3
MaxTableCols == 11

InitTable ==
    /\ charlist = <<MkEntry(0, <<"a">>)>>
    /\ showcombining = TRUE
    /\ xtermsize \in (mincolumnwidth + 2)..MaxTableWidth
    /\ ytermsize \in 1..MaxTableRows
    /\ lastrow = ytermsize - 1
    /\ columncount \in 1..MaxTableCols
    /\ index = 0
    /\ tablesize = 0
    /\ pc = "call"
    /\ beep = FALSE
    /\ input = <<>>
    /\ inputlen = 0
    /\ inputmax = 0
    /\ lastfound = <<>>
    /\ selected = 0
    /\ xscreen = xtermsize
    /\ yscreen = ytermsize
    /\ curses = "managed"
    /\ errtext = FALSE
    /\ status = 0 - 1
    /\ key = "none"
    /\ NoBlocks
    /\ lastsubstring = <<>>
    /\ NoCall

\* lines 686-693: columncount clamped, tablesize computed and drawtable(index)
\* called on the terminal as it is: r1 = the number of entries drawn, the
\* value drawtable returns less index
CallDrawTable ==
    /\ fn' = "drawtable"
    /\ columncount' = ClampColumns(columncount, xtermsize)
    /\ tablesize' = (ytermsize - 1) * ClampColumns(columncount, xtermsize)
    /\ r1' = drawtable(index, ClampColumns(columncount, xtermsize),
                       xtermsize, lastrow) - index
    /\ UNCHANGED <<charlist, termvars, index, pc, beep, inputvars,
                   showcombining, blocklist, blockvars, screenvars, procvars,
                   key, lastsubstring, lastfound, a1, a2, r2, sarg, visited,
                   cells>>

NextTable == CallDrawTable

SpecTable == InitTable /\ [][NextTable]_vars

(***************************************************************************)
(* C22.  drawtable fills exactly columncount columns of lastrow entries:   *)
(* at every width and every clamped column count the number of entries it  *)
(* draws is columncount * (ytermsize - 1), the tablesize of mainui, and    *)
(* the status line's last value is that of entry                           *)
(* index + columncount * (ytermsize - 1) - 1.                              *)
(***************************************************************************)
C22_ExactColumns ==
    fn = "drawtable" =>
        /\ tablesize = columncount * (ytermsize - 1)
        /\ r1 = tablesize

\* the states in which a view has just been drawn
ViewDrawn == TableDrawn \/ pc \in {"blockgetch", "blockcrash"}

(***************************************************************************)
(* C11.  Resize handling: whatever state consumed the resize events (main  *)
(* table, block list, a prompt, a help text or the version display),       *)
(* whenever a view is drawn in curses mode the stored xtermsize and        *)
(* ytermsize are the size the terminal has.                                *)
(***************************************************************************)
C11_GeometryCurrent ==
    (curses = "managed" /\ ViewDrawn) =>
        /\ xtermsize = xscreen
        /\ ytermsize = yscreen

(***************************************************************************)
(* C12.  The interrupt key ('\003') ends the program from every state:     *)
(* once it has been read, the program is exiting or has exited.            *)
(***************************************************************************)
C12_InterruptExits == key = "^C" => pc \in {"atexit", "exit"}

(***************************************************************************)
(* C14.  Recoverable errors are no-ops: a search for a string that no name *)
(* holds (or a repeat with no string remembered) leaves index as it was,   *)
(* back in the main table, with a beep; Enter on an empty block leaves the *)
(* block list open on the same block, with a beep.                         *)
(***************************************************************************)
C14_RejectedIsNoOp ==
    [][/\ ((InputConfirm /\ inputlen > 0
              /\ MatchesOf(LowerCase(input)) = {})
           \/ ((KeyNext \/ KeyPrevious) /\ lastsubstring = <<>>))
          => (pc' = "loop" /\ index' = index /\ beep')
       /\ (BlockConfirm /\ emptyblocks[selected + 1])
          => (pc' = "blockloop" /\ selected' = selected /\ index' = index
              /\ beep')]_vars

(***************************************************************************)
(* C15.  Enter at the jump prompt on invalid input, which is no input at   *)
(* all or a value above 0x10FFFF, leaves index, an index within the list,  *)
(* at its previous value.                                                  *)
(***************************************************************************)
C15_InvalidJumpKeepsIndex ==
    [][(JumpConfirm /\ ValidIndex(index)
          /\ (inputlen = 0 \/ strtoul(input) > lastucharval))
         => (pc' = "loop" /\ index' = index)]_vars

\* the sub-modes of the main table
InSubMode(p) ==
    p \in {"search", "jump", "blockloop", "blockgetch", "blockhelp",
           "blockversion"}

C19_InitFailureFatal ==
    curses = "failed" =>
        /\ pc \in {"atexit", "exit"}
        /\ errtext
        /\ status > 0

(***************************************************************************)
(* C20.  Terminal-mode restoration: when the process has ended through     *)
(* exit or a return from main ('q', the interrupt key in the main table or *)
(* the block list, die), the terminal is not in curses mode any more, and  *)
(* it is not in curses mode when error text has been written.              *)
(***************************************************************************)
C20_ModeRestored ==
    /\ pc = "exit" => curses # "managed"
    /\ errtext => curses # "managed"

\* the interrupt key has ended the program from the block list, and endwin
\* has been called
C20_Witness ==
    /\ pc = "exit"
    /\ curses = "ended"
    /\ key = "^C"
    /\ emptyblocks # <<>>
    /\ status = 0

(***************************************************************************)
(* C23.  The input length stays within the buffer: while a prompt is open, *)
(* after any characters, erases, kills and resizes, also to a width        *)
(* smaller than the prompt, 0 <= inputlen <= inputsize - 1, and the        *)
(* program has not been killed for an access outside the buffer.           *)
(***************************************************************************)
C23_InputLenBound ==
    /\ AtPrompt => (0 <= inputlen /\ inputlen <= InputSize - 1)
    /\ pc # "inputcrash"

(***************************************************************************)
(* C25.  The main table is never drawn with a columncount of 0: at every   *)
(* call of drawtable on a terminal that initscr has taken over,            *)
(* columncount >= 1, so that xtermsize / columncount is defined.           *)
(***************************************************************************)
C25_ColumnsNonZero ==
    /\ (curses = "managed" /\ TableDrawn) => columncount >= 1
    /\ curses = "managed" => pc \notin {"drawfpe", "drawloop"}

(***************************************************************************)
(* drawentry, src/ubrowse.c:569-620.  The cells it writes are numbered     *)
(* from the entry's own x: cell k is column x + k of row y.  wcwidth is    *)
(* the C library's and its result an input.                                *)
(***************************************************************************)
\* line 580: the length of sprintf(buf, " %04X", uchar)
LabelLength(uchar) ==
    IF uchar < 65536 THEN 5 ELSE IF uchar < 1048576 THEN 6 ELSE 7

\* count cells of one kind from cell start on
Run(start, count, kind) ==
    [k \in 1..count |-> [pos |-> start + k - 1, kind |-> kind]]

\* lines 582-586: the cells the glyph takes
GlyphWidth(wcw, combining) ==
    LET width == IF wcw < 0 THEN 0 ELSE wcw
    IN  IF combining /\ showcombining /\ width = 0 THEN 1 ELSE width

\* a mutant of HasNameRoom: <= for <
HasNameRoomLE(n, colwidth) == n + 3 <= colwidth

\* line 587: the name is drawn at all
HasNameRoom(n, colwidth) == n + 3 < colwidth

\* lines 591-605: the name, whole or cut short around an ellipsis, from
\* cell 6 on
DrawName(colwidth, width, size) ==
    LET n == colwidth - 7 - width
    IN  IF n >= size THEN Run(6, size, "name")
        ELSE IF n > 6
        THEN Run(6, n \div 2, "name")
               \o Run(6 + n \div 2, 1, "ellipsis")
               \o Run(7 + n \div 2, n - (n \div 2 + 1), "name")
        ELSE Run(6, 1, "ellipsis")
               \o (IF n > 1 THEN Run(7, n - 1, "name") ELSE <<>>)

\* [ret, cells] of drawentry(y, x, colwidth, i) where wcwidth gives wcw
drawentry(colwidth, i, wcw) ==
    IF colwidth < mincolumnwidth THEN [ret |-> FALSE, cells |-> <<>>]
    ELSE
      LET n == LabelLength(CL(i).uchar)
          width == GlyphWidth(wcw, CL(i).combining)
          label == Run(0, 5, "label")
          name == IF HasNameRoom(n, colwidth)
                  THEN Run(5, 1, "separator")
                         \o DrawName(colwidth, width, Len(CL(i).name))
                  ELSE <<>>
          glyph == IF width = 0 THEN <<>>
                   ELSE Run(colwidth - width, width, "glyph")
      IN  [ret |-> TRUE, cells |-> label \o name \o glyph]

(***************************************************************************)
(* The entry specification: drawentry applied to one entry of every label  *)
(* length, name length 0..MaxNameSize and kind, at every column width      *)
(* 0..MaxColWidth and every result of wcwidth.                             *)
(***************************************************************************)
MaxColWidth == 16

MaxNameSize == 10

\* one codepoint for each length of label: 4, 5 and 6 hex digits
EntryUChars == {65, 65536, 1048576}

EntryLists ==
    { << [uchar |-> u, name |-> [k \in 1..sz |-> "a"], combining |-> c] >> :
        u \in EntryUChars, sz \in 0..MaxNameSize, c \in BOOLEAN }

\* wcwidth's results: -1 for a character that is not printable
WcWidths == {0 - 1, 0, 1, 2}

InitEntry ==
    /\ charlist \in EntryLists
    /\ showcombining \in BOOLEAN
    /\ UIIdle
    /\ NoBlocks
    /\ lastsubstring = <<>>
    /\ NoCall

\* drawentry(a1 cells wide, entry 0) where wcwidth gives a2: r1 = 1 when it
\* returns TRUE, cells what it wrote
CallDrawEntry ==
    \E w \in 0..MaxColWidth, wcw \in WcWidths :
        LET d == drawentry(w, 0, wcw)
        IN  /\ fn' = "drawentry"
            /\ a1' = w
            /\ a2' = wcw
            /\ r1' = IF d.ret THEN 1 ELSE 0
            /\ cells' = d.cells
            /\ UNCHANGED <<charlist, uivars, lastsubstring, lastfound, r2,
                           sarg, visited>>

NextEntry == CallDrawEntry

SpecEntry == InitEntry /\ [][NextEntry]_vars

\* the cells left for the name: the width less the label, the separator,
\* the glyph and the blank before it, if that many there are
NameRoom ==
    IF a1 - 7 - GlyphWidth(a2, CL(0).combining) > 0
    THEN a1 - 7 - GlyphWidth(a2, CL(0).combining)
    ELSE 0

\* drawentry has drawn an entry whose name is longer than the cells left
LongName ==
    /\ fn = "drawentry"
    /\ r1 = 1
    /\ Len(CL(0).name) > NameRoom

CellsOfKind(kind) == { k \in 1..Len(cells) : cells[k].kind = kind }

\* every cell written is one of the a1 cells of the entry, none twice
CellsFit ==
    /\ \A k \in 1..Len(cells) : cells[k].pos \in 0..(a1 - 1)
    /\ \A j \in 1..Len(cells) : \A k \in 1..Len(cells) :
          cells[j].pos = cells[k].pos => j = k

(***************************************************************************)
(* C10 as claimed: at every column width (>= 8) that drawentry accepts and *)
(* every glyph width, an entry whose name is longer than the cells left    *)
(* for it is drawn within the column width, no cell twice, and with an     *)
(* ellipsis.                                                               *)
(***************************************************************************)
C10_Ellipsis ==
    LongName => CellsFit /\ CellsOfKind("ellipsis") # {}

(***************************************************************************)
(* C10 as amended: such an entry is drawn within the column width, no cell *)
(* twice; it has exactly one ellipsis when the name is drawn at all, which *)
(* is when the column width exceeds the label's sprintf length (5, 6 or 7  *)
(* for 4, 5 or 6 hex digits) by more than 3, and at the narrower widths    *)
(* (8; 9 too from U+10000; 10 too from U+100000) neither name nor ellipsis *)
(* is drawn.                                                               *)
(***************************************************************************)
C10_EllipsisWhenNameDrawn ==
    LongName =>
        /\ CellsFit
        /\ IF a1 > LabelLength(CL(0).uchar) + 3
           THEN Cardinality(CellsOfKind("ellipsis")) = 1
           ELSE CellsOfKind("ellipsis") = {} /\ CellsOfKind("name") = {}

\* a name cut short around the ellipsis, beside a glyph two cells wide
C10_Witness ==
    /\ LongName
    /\ a2 = 2
    /\ CellsOfKind("ellipsis") # {}
    /\ Cardinality(CellsOfKind("name")) >= 6
    /\ Len(cells) = a1 - 1

====
